---- MODULE Spec2Model ----
(***************************************************************************)
(* Model of nexus-langgraph's model resolver (shared/config/llm_config.py) *)
(* and of the agent factories that call it (agents/dental/agent.py,        *)
(* agents/react/agent.py).                                                 *)
(*                                                                         *)
(* Python values are modelled as follows.  None is the string None below;  *)
(* a str is a TLA+ string; a dict is a record; an exception that leaves a  *)
(* function is a record whose kind is the exception's class name; a chat   *)
(* model object is a record [kind |-> class name, kwargs |-> the keyword   *)
(* arguments the constructor was given].  A metadata field that may be     *)
(* missing from the dict is <<>> when missing and <<v>> when present.      *)
(***************************************************************************)
EXTENDS Integers, Sequences, FiniteSets, TLC

VARIABLES env, _llm, _agent, pc, op, request, result

vars == <<env, _llm, _agent, pc, op, request, result>>

None == "<None>"

\* Python truthiness of a str-or-None value: None and "" are falsy.
Truthy(v) == v # None /\ v # ""

(***************************************************************************)
(* Bounds and input domains                                                *)
(***************************************************************************)

\* thinking_budget is drawn from 0 +/- BudgetSpread, 1024 +/- BudgetSpread,
\* and the values the spec and the examples name (500, 2048, 4096).
BudgetSpread == 1

THINKING_FLOOR == 1024
ANTHROPIC_MAX_TOKENS == 10000
DEFAULT_THINKING_BUDGET == 2048
DENTAL_DEFAULT_THINKING_BUDGET == 2048

Budgets ==
    ((0 - BudgetSpread) .. BudgetSpread)
        \cup ((THINKING_FLOOR - BudgetSpread) .. (THINKING_FLOOR + BudgetSpread))
        \cup {500, DEFAULT_THINKING_BUDGET, 4096}

EnvKeys == {"ANTHROPIC_API_KEY", "OPENAI_API_KEY", "GOOGLE_API_KEY"}

\* An environment variable is unset (None), set to the empty string, or set.
EnvValues == {None, "", "sk-key"}

Providers == {"anthropic", "openai", "gemini"}

\* provider argument: None, "", a declared provider, or an undeclared one.
ProviderArgs == {None, ""} \cup Providers \cup {"mistral"}

\* tier argument: None, "", a declared tier, or an undeclared one.
TierArgs == {None, "", "pro", "flash", "ultra"}

\* model argument: None, "", or an explicit identifier.
ModelArgs == {None, "", "explicit-id"}

(***************************************************************************)
(* shared/config/llm_config.py                                             *)
(***************************************************************************)

CLAUDE_OPUS_4_5 == "claude-opus-4-5-20251101"
CLAUDE_SONNET_4_5 == "claude-sonnet-4-5-20250929"
GPT_5_2 == "gpt-5.2"
GPT_5_MINI == "gpt-5-mini"
GEMINI_3_PRO == "gemini-3-pro-preview"
GEMINI_3_FLASH == "gemini-3-flash-preview"

MODEL_TIERS ==
    [anthropic |-> [pro |-> CLAUDE_OPUS_4_5, flash |-> CLAUDE_SONNET_4_5],
     openai    |-> [pro |-> GPT_5_2,         flash |-> GPT_5_MINI],
     gemini    |-> [pro |-> GEMINI_3_PRO,    flash |-> GEMINI_3_FLASH]]

\* os.getenv(key)
getenv(key) == env[key]

\* An exception propagating out of a function.
Raise(cls) == [kind |-> cls]

\* A value returned by a helper that may raise instead.
Return(v) == [kind |-> "return", value |-> v]

\* Control reached the end of an `if` block of get_llm without returning.
FallThrough == [kind |-> "fallthrough"]

Max(a, b) == IF a >= b THEN a ELSE b

\* dict.get(key, default) on a record.
DictGet(d, key, default) == IF key \in DOMAIN d THEN d[key] ELSE default

\* Faulty variant: the tier is ignored and the flash entry always used.
get_model_for_provider_always_flash(model, tier, prov) ==
    IF Truthy(model) THEN Return(model)
    ELSE Return(DictGet(DictGet(MODEL_TIERS, prov, <<>>), "flash", ""))

\* Faulty variant: the tier table is consulted before the explicit model.
get_model_for_provider_tier_first(model, tier, prov) ==
    IF Truthy(tier) /\ prov \in DOMAIN MODEL_TIERS
    THEN IF tier \in DOMAIN MODEL_TIERS[prov]
         THEN Return(MODEL_TIERS[prov][tier])
         ELSE Raise("KeyError")
    ELSE IF Truthy(model) THEN Return(model)
    ELSE Return(DictGet(DictGet(MODEL_TIERS, prov, <<>>), "flash", ""))

\* get_model_for_provider(prov), closed over get_llm's model and tier.
get_model_for_provider(model, tier, prov) ==
    IF Truthy(model) THEN Return(model)
    ELSE IF Truthy(tier) /\ prov \in DOMAIN MODEL_TIERS
         THEN IF tier \in DOMAIN MODEL_TIERS[prov]
              THEN Return(MODEL_TIERS[prov][tier])
              ELSE Raise("KeyError")
         ELSE Return(DictGet(DictGet(MODEL_TIERS, prov, <<>>), "flash", ""))

\* Faulty variant: the budget is passed through without the floor.
AnthropicThinking_no_floor(kwargs, enable_thinking, thinking_budget) ==
    IF enable_thinking
    THEN kwargs @@ [thinking |-> [type |-> "enabled", budget_tokens |-> thinking_budget]]
    ELSE kwargs

\* kwargs["thinking"] = {...} of the Anthropic branch.
AnthropicThinking(kwargs, enable_thinking, thinking_budget) ==
    IF enable_thinking
    THEN kwargs @@ [thinking |-> [type |-> "enabled",
                                  budget_tokens |-> Max(THINKING_FLOOR, thinking_budget)]]
    ELSE kwargs

\* Faulty variant: the OpenAI branch also passes the token budget on.
OpenAIReasoning_with_budget(kwargs, enable_thinking, thinking_budget) ==
    IF enable_thinking
    THEN kwargs @@ [reasoning_effort |-> "high", thinking_budget |-> thinking_budget]
    ELSE kwargs

\* kwargs["reasoning_effort"] = "high" of the OpenAI branch.
OpenAIReasoning(kwargs, enable_thinking, thinking_budget) ==
    IF enable_thinking
    THEN kwargs @@ [reasoning_effort |-> "high"]
    ELSE kwargs

\* kwargs["thinking_budget"], kwargs["include_thoughts"] of the Gemini branch.
GeminiThinking(kwargs, enable_thinking, thinking_budget) ==
    IF enable_thinking
    THEN kwargs @@ [thinking_budget |-> IF thinking_budget > 0 THEN thinking_budget ELSE -1,
                    include_thoughts |-> TRUE]
    ELSE kwargs

\* Faulty variant: a present credential selects the provider even when
\* another provider was forced.
ProviderTest_fallback(provider, name, key) ==
    provider = name \/ Truthy(getenv(key))

\* The condition of each provider's `if`: forced, or auto-detected.
ProviderTest(provider, name, key) ==
    provider = name \/ (~Truthy(provider) /\ Truthy(getenv(key)))

AnthropicBranch(model, provider, tier, enable_thinking, thinking_budget) ==
    IF ProviderTest(provider, "anthropic", "ANTHROPIC_API_KEY")
          /\ Truthy(getenv("ANTHROPIC_API_KEY"))
    THEN LET selected_model == get_model_for_provider(model, tier, "anthropic")
         IN  IF selected_model.kind # "return" THEN selected_model
             ELSE [kind |-> "ChatAnthropic",
                   kwargs |-> AnthropicThinking(
                       [model |-> selected_model.value,
                        max_tokens |-> ANTHROPIC_MAX_TOKENS],
                       enable_thinking, thinking_budget)]
    ELSE FallThrough

OpenAIBranch(model, provider, tier, enable_thinking, thinking_budget) ==
    IF ProviderTest(provider, "openai", "OPENAI_API_KEY")
          /\ Truthy(getenv("OPENAI_API_KEY"))
    THEN LET selected_model == get_model_for_provider(model, tier, "openai")
         IN  IF selected_model.kind # "return" THEN selected_model
             ELSE [kind |-> "ChatOpenAI",
                   kwargs |-> OpenAIReasoning(
                       [model |-> selected_model.value, temperature |-> "0.7"],
                       enable_thinking, thinking_budget)]
    ELSE FallThrough

GeminiBranch(model, provider, tier, enable_thinking, thinking_budget) ==
    IF ProviderTest(provider, "gemini", "GOOGLE_API_KEY")
          /\ Truthy(getenv("GOOGLE_API_KEY"))
    THEN LET selected_model == get_model_for_provider(model, tier, "gemini")
         IN  IF selected_model.kind # "return" THEN selected_model
             ELSE [kind |-> "ChatGoogleGenerativeAI",
                   kwargs |-> GeminiThinking(
                       [model |-> selected_model.value, temperature |-> "0.7"],
                       enable_thinking, thinking_budget)]
    ELSE FallThrough

\* Faulty variant: the OpenAI block is placed before the Anthropic block.
get_llm_openai_first(model, provider, tier, enable_thinking, thinking_budget) ==
    LET a == AnthropicBranch(model, provider, tier, enable_thinking, thinking_budget)
        o == OpenAIBranch(model, provider, tier, enable_thinking, thinking_budget)
        g == GeminiBranch(model, provider, tier, enable_thinking, thinking_budget)
    IN  IF o.kind # "fallthrough" THEN o
        ELSE IF a.kind # "fallthrough" THEN a
        ELSE IF g.kind # "fallthrough" THEN g
        ELSE Raise("ValueError")

\* get_llm: the three provider blocks in source order, then the final raise.
get_llm(model, provider, tier, enable_thinking, thinking_budget) ==
    LET a == AnthropicBranch(model, provider, tier, enable_thinking, thinking_budget)
        o == OpenAIBranch(model, provider, tier, enable_thinking, thinking_budget)
        g == GeminiBranch(model, provider, tier, enable_thinking, thinking_budget)
    IN  IF a.kind # "fallthrough" THEN a
        ELSE IF o.kind # "fallthrough" THEN o
        ELSE IF g.kind # "fallthrough" THEN g
        ELSE Raise("ValueError")

(***************************************************************************)
(* State machine                                                           *)
(***************************************************************************)

NoRequest == [none |-> TRUE]

\* Python's None where the other values of the variable are objects.
NoneObj == [kind |-> "NoneType"]

IsNone(x) == x.kind = "NoneType"

\* A metadata field: missing from the dict (<<>>) or present with a value.
Opt(S) == {<<>>} \cup {<<v>> : v \in S}

\* metadata.get(key, default)
MetaGet(metadata, key, default) ==
    IF Len(metadata[key]) = 0 THEN default ELSE metadata[key][1]

\* The llm_* and thinking fields of config["metadata"].
Metadata ==
    [llm_provider : Opt(ProviderArgs), llm_tier : Opt(TierArgs),
     llm_model : Opt(ModelArgs), enable_thinking : Opt(BOOLEAN),
     thinking_budget : Opt(Budgets)]

Init ==
    /\ env \in [EnvKeys -> EnvValues]
    /\ _llm = NoneObj
    /\ _agent = NoneObj
    /\ pc = "idle"
    /\ op = "none"
    /\ request = NoRequest
    /\ result = Raise("none")

\* A caller invokes get_llm(model, provider, tier, enable_thinking, thinking_budget).
CallGetLlm ==
    /\ pc = "idle"
    /\ \E model \in ModelArgs, provider \in ProviderArgs, tier \in TierArgs,
          enable_thinking \in BOOLEAN, thinking_budget \in Budgets :
          /\ request' = [model |-> model, provider |-> provider, tier |-> tier,
                         enable_thinking |-> enable_thinking,
                         thinking_budget |-> thinking_budget]
          /\ result' = get_llm(model, provider, tier, enable_thinking, thinking_budget)
    /\ op' = "get_llm"
    /\ pc' = "returned"
    /\ UNCHANGED <<env, _llm, _agent>>

(***************************************************************************)
(* agents/dental/agent.py                                                  *)
(***************************************************************************)

DENTAL_DEFAULT_PROVIDER == "gemini"
DENTAL_DEFAULT_TIER == "pro"
DENTAL_DEFAULT_THINKING == TRUE

\* Faulty variant: the factory passes get_llm's own defaults (auto-detected
\* provider, flash tier) instead of the dental ones.
DentalLlm_auto_flash(metadata) ==
    get_llm(MetaGet(metadata, "llm_model", None),
            MetaGet(metadata, "llm_provider", None),
            MetaGet(metadata, "llm_tier", "flash"),
            MetaGet(metadata, "enable_thinking", DENTAL_DEFAULT_THINKING),
            MetaGet(metadata, "thinking_budget", DENTAL_DEFAULT_THINKING_BUDGET))

\* get_llm(...) as agent(config) calls it, with the factory's defaults.
DentalLlm(metadata) ==
    get_llm(MetaGet(metadata, "llm_model", None),
            MetaGet(metadata, "llm_provider", DENTAL_DEFAULT_PROVIDER),
            MetaGet(metadata, "llm_tier", DENTAL_DEFAULT_TIER),
            MetaGet(metadata, "enable_thinking", DENTAL_DEFAULT_THINKING),
            MetaGet(metadata, "thinking_budget", DENTAL_DEFAULT_THINKING_BUDGET))

\* The platform calls the dental factory agent(config); the result is the
\* model handed to create_agent, or the exception get_llm raised.
DentalAgent ==
    /\ pc = "idle"
    /\ \E metadata \in Metadata :
          /\ request' = metadata
          /\ result' = DentalLlm(metadata)
    /\ op' = "dental"
    /\ pc' = "returned"
    /\ UNCHANGED <<env, _llm, _agent>>

(***************************************************************************)
(* agents/react/agent.py                                                   *)
(***************************************************************************)

\* get_llm_instance(): the value returned (or the exception raised).
get_llm_instance == IF IsNone(_llm)
                    THEN get_llm(None, None, None, FALSE, DEFAULT_THINKING_BUDGET)
                    ELSE _llm

\* create_react_agent(model=..., tools=tools, prompt=prompt_runnable)
create_react_agent(model) == [kind |-> "CompiledGraph", model |-> model]

IsException(r) == r.kind \in {"ValueError", "KeyError"}

\* LazyAgent.__call__ / invoke / stream with a request's config: the agent is
\* created on first use, then the request runs on self._agent.  The result
\* is the model the request ran on, or the exception that left the call.
LazyAgent_invoke ==
    /\ pc = "idle"
    /\ \E metadata \in Metadata : request' = metadata
    /\ IF IsNone(_agent)
       THEN LET llm == get_llm_instance
            IN  IF IsException(llm)
                THEN /\ result' = llm
                     /\ UNCHANGED <<_llm, _agent>>
                ELSE /\ _llm' = llm
                     /\ _agent' = create_react_agent(llm)
                     /\ result' = llm
       ELSE /\ result' = _agent.model
            /\ UNCHANGED <<_llm, _agent>>
    /\ op' = "react"
    /\ pc' = "returned"
    /\ UNCHANGED env

\* The caller has taken the value (or the exception) of the finished call.
Finish ==
    /\ pc = "returned"
    /\ pc' = "idle"
    /\ op' = "none"
    /\ request' = NoRequest
    /\ result' = Raise("none")
    /\ UNCHANGED <<env, _llm, _agent>>

Next == CallGetLlm \/ DentalAgent \/ LazyAgent_invoke \/ Finish

Spec == Init /\ [][Next]_vars

(***************************************************************************)
(* Vocabulary of the properties                                            *)
(***************************************************************************)

\* The credential of a provider, and the class of the model it yields.
CredentialOf(p) ==
    CASE p = "anthropic" -> "ANTHROPIC_API_KEY"
      [] p = "openai"    -> "OPENAI_API_KEY"
      [] p = "gemini"    -> "GOOGLE_API_KEY"

ClassOf(p) ==
    CASE p = "anthropic" -> "ChatAnthropic"
      [] p = "openai"    -> "ChatOpenAI"
      [] p = "gemini"    -> "ChatGoogleGenerativeAI"

ProviderOf(r) == CHOOSE p \in Providers : ClassOf(p) = r.kind

IsModel(r) == r.kind \in {ClassOf(p) : p \in Providers}

\* A credential is present when its variable is set to a non-empty value.
CredPresent(p) == env[CredentialOf(p)] \notin {None, ""}

PresentProviders == {p \in Providers : CredPresent(p)}

PriorityOrder == <<"anthropic", "openai", "gemini">>

\* The first provider, in priority order, whose credential is present.
FirstPresent ==
    PriorityOrder[CHOOSE i \in 1..Len(PriorityOrder) :
                     /\ PriorityOrder[i] \in PresentProviders
                     /\ \A j \in 1..(i - 1) : PriorityOrder[j] \notin PresentProviders]

GetLlmReturned == pc = "returned" /\ op = "get_llm"

DentalReturned == pc = "returned" /\ op = "dental"

ReactReturned == pc = "returned" /\ op = "react"

Omits(metadata, key) == Len(metadata[key]) = 0

(***************************************************************************)
(* Properties                                                              *)
(***************************************************************************)

\* C1: get_llm called with an explicit provider of {anthropic, openai, gemini}
\* whose credential is absent fails with the no-credential error (ValueError),
\* whatever the other two credentials are; no other provider's model is returned.
C1_ExplicitProviderWithoutCredentialFails ==
    (GetLlmReturned /\ request.provider \in Providers
        /\ ~CredPresent(request.provider))
    => result.kind = "ValueError"

\* C1 witness: anthropic is forced, its credential is absent, the two other
\* credentials are present, and the call has failed.
C1_Witness ==
    /\ GetLlmReturned
    /\ request.provider = "anthropic"
    /\ PresentProviders = {"openai", "gemini"}
    /\ result.kind = "ValueError"

\* C2: get_llm called with no provider returns a model of the first of
\* anthropic, openai, gemini whose credential is present (the only other
\* outcome being the tier lookup's KeyError), and fails with the no-credential
\* error when no credential is present.
C2_AutoDetectFirstPresent ==
    (GetLlmReturned /\ request.provider = None)
    => IF PresentProviders = {}
       THEN result.kind = "ValueError"
       ELSE result.kind \in {ClassOf(FirstPresent), "KeyError"}

\* C2 witness: only the openai and gemini credentials are present and the
\* auto-detected model is OpenAI's.
C2_Witness ==
    /\ GetLlmReturned
    /\ request.provider = None
    /\ PresentProviders = {"openai", "gemini"}
    /\ result.kind = "ChatOpenAI"

\* C3: with no explicit model, a provider whose credential is present is
\* resolved to exactly MODEL_TIERS[provider][tier] for tier pro or flash and
\* to MODEL_TIERS[provider]["flash"] when the tier is absent.
C3_TierTableModel ==
    (GetLlmReturned /\ request.model = None
        /\ request.tier \in {None, "pro", "flash"})
    => /\ \A p \in Providers :
            (request.provider = p /\ CredPresent(p)) => result.kind = ClassOf(p)
       /\ IsModel(result) =>
            result.kwargs.model =
                MODEL_TIERS[ProviderOf(result)]
                           [IF request.tier = None THEN "flash" ELSE request.tier]

\* C3 witness: the pro tier of gemini has been resolved.
C3_Witness ==
    /\ GetLlmReturned
    /\ request.model = None
    /\ request.provider = "gemini"
    /\ request.tier = "pro"
    /\ IsModel(result)
    /\ result.kwargs.model = "gemini-3-pro-preview"

\* C4: with an explicit model identifier, the model id of the returned model
\* is that identifier, whatever the tier argument; the tier table is not
\* consulted (a tier it has no entry for does not make the call fail).
C4_ExplicitModelVerbatim ==
    (GetLlmReturned /\ request.model \notin {None, ""})
    => /\ result.kind # "KeyError"
       /\ IsModel(result) => result.kwargs.model = request.model

\* C4 witness: an explicit model with a tier the table does not have.
C4_Witness ==
    /\ GetLlmReturned
    /\ request.model = "explicit-id"
    /\ request.tier = "ultra"
    /\ IsModel(result)
    /\ result.kwargs.model = "explicit-id"

\* C5: every call of get_llm either returns a model or fails with the
\* no-credential error (ValueError); no other error propagates.
C5_OnlyNoCredentialErrorPropagates ==
    GetLlmReturned => (IsModel(result) \/ result.kind = "ValueError")

\* C6: the Anthropic model with enable_thinking carries thinking =
\* {type: enabled, budget_tokens: max(1024, thinking_budget)}; a budget of 500
\* gives 1024.
C6_AnthropicBudgetFloor ==
    (GetLlmReturned /\ result.kind = "ChatAnthropic" /\ request.enable_thinking)
    => /\ "thinking" \in DOMAIN result.kwargs
       /\ result.kwargs.thinking.type = "enabled"
       /\ result.kwargs.thinking.budget_tokens =
            (IF request.thinking_budget < 1024 THEN 1024 ELSE request.thinking_budget)
       /\ request.thinking_budget = 500 => result.kwargs.thinking.budget_tokens = 1024

\* C6 witness: thinking_budget 500 on Anthropic has been raised to 1024.
C6_Witness ==
    /\ GetLlmReturned
    /\ result.kind = "ChatAnthropic"
    /\ request.enable_thinking
    /\ request.thinking_budget = 500
    /\ result.kwargs.thinking.budget_tokens = 1024

\* The thinking token budgets a model's keyword arguments carry.
CarriedBudgets(kwargs) ==
    (IF "thinking" \in DOMAIN kwargs THEN {kwargs.thinking.budget_tokens} ELSE {})
        \cup (IF "thinking_budget" \in DOMAIN kwargs THEN {kwargs.thinking_budget} ELSE {})

\* C7: for every provider, a model resolved with enable_thinking carries no
\* positive thinking token budget below 1024.
C7_FloorForEveryProvider ==
    (GetLlmReturned /\ IsModel(result) /\ request.enable_thinking)
    => \A b \in CarriedBudgets(result.kwargs) : ~(0 < b /\ b < 1024)

ReasoningKeys == {"thinking", "reasoning_effort", "thinking_budget", "include_thoughts"}

\* The reasoning parameters of each provider's variant.
VariantKeys(p) ==
    CASE p = "anthropic" -> {"thinking"}
      [] p = "openai"    -> {"reasoning_effort"}
      [] p = "gemini"    -> {"thinking_budget", "include_thoughts"}

C9_DentalAutoDetectAndFlash ==
    DentalReturned
    => /\ Omits(request, "llm_provider") =>
            (IF PresentProviders = {}
             THEN result.kind = "ValueError"
             ELSE result.kind \in {ClassOf(FirstPresent), "KeyError"})
       /\ (Omits(request, "llm_tier") /\ Omits(request, "llm_model") /\ IsModel(result)) =>
            result.kwargs.model = MODEL_TIERS[ProviderOf(result)]["flash"]

\* C9 amended: the dental factory resolves a request that omits llm_provider
\* with the provider forced to gemini (never another provider's model; the
\* no-credential error when GOOGLE_API_KEY is absent, whatever the other
\* credentials are), and a request that omits llm_tier with the pro tier
\* (the table's pro entry when no llm_model is given; the tier lookup cannot
\* fail).
C9_DentalGeminiAndPro ==
    DentalReturned
    => /\ Omits(request, "llm_provider") =>
            (IF CredPresent("gemini")
             THEN result.kind \in {"ChatGoogleGenerativeAI", "KeyError"}
             ELSE result.kind = "ValueError")
       /\ Omits(request, "llm_tier") => result.kind # "KeyError"
       /\ (Omits(request, "llm_tier") /\ Omits(request, "llm_model") /\ IsModel(result)) =>
            result.kwargs.model = MODEL_TIERS[ProviderOf(result)]["pro"]

\* C9 witness: metadata omits provider and tier, every credential is present,
\* and the factory has built on Gemini's pro model.
C9_Witness ==
    /\ DentalReturned
    /\ Omits(request, "llm_provider")
    /\ Omits(request, "llm_tier")
    /\ Omits(request, "llm_model")
    /\ PresentProviders = Providers
    /\ result.kind = "ChatGoogleGenerativeAI"
    /\ result.kwargs.model = "gemini-3-pro-preview"

\* The model the resolver gives for a request's own metadata (provider
\* auto-detected, flash tier, thinking off, budget 2048 when a field is missing).
ResolvedFromMetadata(metadata) ==
    get_llm(MetaGet(metadata, "llm_model", None),
            MetaGet(metadata, "llm_provider", None),
            MetaGet(metadata, "llm_tier", None),
            MetaGet(metadata, "enable_thinking", FALSE),
            MetaGet(metadata, "thinking_budget", 2048))

\* C10: the model a ReAct request runs on is the one resolved from that
\* request's own llm_provider, llm_tier, llm_model and thinking metadata,
\* whatever requests were handled before it.
C10_ReactModelFromOwnMetadata ==
    ReactReturned => result = ResolvedFromMetadata(request)

(***************************************************************************)
(* shared/prompts/react_prompt.py                                          *)
(*                                                                         *)
(* Prompts are strings, built with \o as the code builds them with + and   *)
(* "".join.  The arrows of NEXUS_TOOLS_SYSTEM_PROMPT are written "->".     *)
(* A dict whose keys may be missing is a record of <<>> / <<v>> fields.    *)
(* The two remote lookups are inputs of a call: each either cannot be      *)
(* imported, raises, or returns.                                           *)
(***************************************************************************)

\* Longest assigned_skills list and longest list of discovered skills.
MaxSkills == 2

\* Longest list of mounts list_connectors returns.
MaxMounts == 2

NEXUS_TOOLS_SYSTEM_PROMPT ==
    "<nexus_tools>\nFiles: grep_files(), glob_files(), read_file(), write_fi"
    \o "le()\n- Read file CANNOT read binary files (e.g. pdf, excel, doc, etc.)"
    \o " directly, you need to use the parsed path format to get the parsed ma"
    \o "rkdown.\n- To get the markdown of a binary file, use the parsed path fo"
    \o "rmat: /path/to/file.ext -> /path/to/file_parsed.ext.md\n- E.g. /path/to"
    \o "/file.pdf -> /path/to/file_parsed.pdf.md, /path/to/file.xlsx -> /path/"
    \o "to/file_parsed.xlsx.md, /path/to/file.doc -> /path/to/file_parsed.doc."
    \o "md, etc.\n\nSandbox(optional): python(), bash()\n- To access files inside"
    \o " Nexus, you MUST add prefix /mnt/nexus to the path.\n\nWorkflow: Search "
    \o "-> Read -> Analyze -> Execute/Write\n\n</nexus_tools>\n"

GENERAL_AGENT_SYSTEM_PROMPT ==
    "You are a versatile AI assistant with access to a remote filesystem an"
    \o "d code execution environment.\n\n"
    \o NEXUS_TOOLS_SYSTEM_PROMPT
    \o "\n\nYou help with coding, data analysis, research, and file operations.\n"
    \o "\nWorkflow:\n1. Search/explore before creating new solutions\n2. Use appr"
    \o "opriate tools for the task\n3. Test and verify your work\n4. Provide cle"
    \o "ar explanations\n\nBe concise and action-oriented.\n"

\* Sequences over S of length at most n.
SeqUpTo(S, n) == UNION {[1..k -> S] : k \in 0..n}

\* Sequences over S of length at most n that name no element twice (the
\* lookups list each subscribed skill and each mount once).
DistinctSeqUpTo(S, n) ==
    {q \in SeqUpTo(S, n) : \A i, j \in DOMAIN q : i # j => q[i] # q[j]}

\* Skill descriptors of metadata["assigned_skills"]: {name, description, path}.
AssignedSkillPool ==
    {[name |-> <<"pdf-tools">>, description |-> <<"Work with PDF files">>,
      path |-> <<"/skills/pdf-tools/SKILL.md">>],
     [name |-> <<"charts">>, description |-> <<>>, path |-> <<>>]}

\* Skills of skills_discover's result: {name, description, file_path}.
DiscoveredSkillPool ==
    {[name |-> <<"web-search">>, description |-> <<"Search the web">>,
      file_path |-> <<"/skills/web-search/SKILL.md">>],
     [name |-> <<>>, description |-> <<"Untitled helper">>, file_path |-> <<>>]}

\* Mounts of list_connectors' result: {mount_point, backend_type, readonly}.
MountPool ==
    {[mount_point |-> <<"/mnt/gmail">>, backend_type |-> <<"GmailConnectorBackend">>,
      readonly |-> <<>>],
     [mount_point |-> <<"/mnt/slack">>, backend_type |-> <<"SlackConnectorBackend">>,
      readonly |-> <<TRUE>>],
     [mount_point |-> <<"/workspace">>, backend_type |-> <<"LocalBackend">>,
      readonly |-> <<FALSE>>],
     [mount_point |-> <<"/mnt/notion">>, backend_type |-> <<"NotionConnectorBackend">>,
      readonly |-> <<>>]}

PathValues == {"", "/workspace/admin/script.py"}

\* The prompt fields of config["metadata"].
PromptMetadata ==
    [assigned_skills : Opt(SeqUpTo(AssignedSkillPool, MaxSkills)),
     opened_file_path : Opt(PathValues),
     workspace_path : Opt(PathValues)]

\* config: None, the empty dict, a dict of other keys only, or a dict with
\* "metadata".
Configs ==
    {[kind |-> "None", metadata |-> <<>>, other |-> FALSE]}
        \cup [kind : {"dict"}, metadata : {<<>>}, other : BOOLEAN]
        \cup [kind : {"dict"}, metadata : {<<m>> : m \in PromptMetadata}, other : {FALSE}]

\* `if config:` -- None and the empty dict are falsy.
ConfigTruthy(config) ==
    config.kind = "dict" /\ (Len(config.metadata) > 0 \/ config.other)

\* config.get("metadata", {})
ConfigMetadata(config) ==
    IF Len(config.metadata) = 0
    THEN [assigned_skills |-> <<>>, opened_file_path |-> <<>>, workspace_path |-> <<>>]
    ELSE config.metadata[1]

\* What `from nexus_client... import skills_discover; await skills_discover(...)`
\* does: the import fails, the call raises, or it returns a dict with or
\* without "skills".
SkillsDiscoverOutcomes ==
    {Raise("ImportError"), Raise("Exception"), Return(<<>>)}
        \cup {Return(<<l>>) : l \in DistinctSeqUpTo(DiscoveredSkillPool, MaxSkills)}

\* What `from nexus_client... import list_connectors; await list_connectors(...)`
\* does: the import fails, the call raises, or it returns the mounts.
ListConnectorsOutcomes ==
    {Raise("ImportError"), Raise("Exception")}
        \cup {Return(l) : l \in DistinctSeqUpTo(MountPool, MaxMounts)}

\* "".join(lines)
RECURSIVE Join(_)
Join(lines) == IF lines = <<>> THEN "" ELSE Head(lines) \o Join(Tail(lines))

\* Lines 74-79: assigned_skills converted to skills_data.
RECURSIVE FromAssigned(_)
FromAssigned(assigned) ==
    IF assigned = <<>> THEN <<>>
    ELSE <<[name |-> <<MetaGet(Head(assigned), "name", "Unknown")>>,
            description |-> <<MetaGet(Head(assigned), "description", "No description")>>,
            file_path |-> Head(assigned).path]>>
         \o FromAssigned(Tail(assigned))

\* Faulty variant: assigned_skills is ignored and discovery always used.
UsesAssigned_never(config) == FALSE

\* `if assigned_skills and len(assigned_skills) > 0`
UsesAssigned(config) ==
    LET assigned_skills == MetaGet(ConfigMetadata(config), "assigned_skills", <<>>)
    IN  Len(assigned_skills) > 0

\* Lines 62-86: skills_data, or the exception raised while getting it.
SkillsData(config, discover) ==
    IF UsesAssigned(config)
    THEN Return(FromAssigned(ConfigMetadata(config).assigned_skills[1]))
    ELSE IF discover.kind # "return" THEN discover
    ELSE Return(MetaGet([skills |-> discover.value], "skills", <<>>))

\* Lines 95-105: the lines of one <skill> element.
SkillLines(skill) ==
    <<"  <skill>\n",
      "    <name>" \o MetaGet(skill, "name", "Unknown") \o "</name>\n",
      "    <description>" \o MetaGet(skill, "description", "No description")
          \o "</description>\n">>
    \o (IF Truthy(MetaGet(skill, "file_path", None))
        THEN <<"    <file_path>" \o skill.file_path[1] \o "</file_path>\n">>
        ELSE <<>>)
    \o <<"  </skill>\n">>

RECURSIVE AllSkillLines(_)
AllSkillLines(skills_data) ==
    IF skills_data = <<>> THEN <<>>
    ELSE SkillLines(Head(skills_data)) \o AllSkillLines(Tail(skills_data))

\* Lines 88-109: the section for skills_data.
FormatSkills(skills_data) ==
    IF skills_data = <<>> THEN ""
    ELSE Join(<<"\n\n<skills count=\"", ToString(Len(skills_data)), "\">\n">>
              \o AllSkillLines(skills_data)
              \o <<"</skills>\n">>)

\* Faulty variant: the handlers let the exception through.
SkillsExcept_propagate(exc) == exc

\* Lines 111-120: `except ImportError` and `except Exception` return "".
SkillsExcept(exc) == Return("")

\* get_skills_prompt_async(config, state=None)
get_skills_prompt_async(config, discover) ==
    LET skills_data == SkillsData(config, discover)
    IN  IF skills_data.kind # "return" THEN SkillsExcept(skills_data)
        ELSE Return(FormatSkills(skills_data.value))

\* skills_discover is called when the discovery branch is taken and its
\* import succeeded.
SkillsDiscoverCalled(config, discover) ==
    ~UsesAssigned(config) /\ discover.kind # "ImportError"

connector_backends ==
    {"GmailConnectorBackend", "SlackConnectorBackend",
     "GDriveConnectorBackend", "XConnectorBackend"}

connector_info ==
    [GmailConnectorBackend |-> <<"Gmail", "Access your Gmail messages and threads">>,
     SlackConnectorBackend |-> <<"Slack", "Access Slack channels, DMs, and messages">>,
     GDriveConnectorBackend |-> <<"Google Drive", "Access Google Drive files and folders">>,
     XConnectorBackend |-> <<"X (Twitter)", "Access X/Twitter posts and timeline">>]

\* Faulty variant: every mount is kept, whatever its backend kind.
IsConnector_any(mount) == TRUE

\* Lines 142-145: `mount.get("backend_type") in connector_backends`
IsConnector(mount) == MetaGet(mount, "backend_type", None) \in connector_backends

\* Lines 142-145: the mounts kept for the section, in lookup order.
RECURSIVE FilterConnectors(_)
FilterConnectors(all_mounts) ==
    IF all_mounts = <<>> THEN <<>>
    ELSE (IF IsConnector(Head(all_mounts)) THEN <<Head(all_mounts)>> ELSE <<>>)
         \o FilterConnectors(Tail(all_mounts))

\* Lines 162-179: the lines of one <connector> element.
ConnectorLines(conn) ==
    LET mount_point == MetaGet(conn, "mount_point", "Unknown")
        backend_type == MetaGet(conn, "backend_type", "Unknown")
        readonly == MetaGet(conn, "readonly", FALSE)
        info == DictGet(connector_info, backend_type,
                        <<backend_type, "Third-party service integration">>)
    IN  <<"  <connector>\n",
          "    <name>" \o info[1] \o "</name>\n",
          "    <description>" \o info[2] \o "</description>\n",
          "    <mount_point>" \o mount_point \o "</mount_point>\n",
          "    <backend_type>" \o backend_type \o "</backend_type>\n">>
        \o (IF readonly THEN <<"    <readonly>true</readonly>\n">> ELSE <<>>)
        \o <<"  </connector>\n">>

RECURSIVE AllConnectorLines(_)
AllConnectorLines(connectors_data) ==
    IF connectors_data = <<>> THEN <<>>
    ELSE ConnectorLines(Head(connectors_data)) \o AllConnectorLines(Tail(connectors_data))

\* Lines 147-183: the section for connectors_data.
FormatConnectors(connectors_data) ==
    IF connectors_data = <<>> THEN ""
    ELSE Join(<<"\n\n<connectors count=\"", ToString(Len(connectors_data)), "\">\n">>
              \o AllConnectorLines(connectors_data)
              \o <<"</connectors>\n">>)

\* Lines 185-194: `except ImportError` and `except Exception` return "".
ConnectorsExcept(exc) == Return("")

\* get_connectors_prompt_async(config, state=None)
get_connectors_prompt_async(config, connectors) ==
    IF connectors.kind # "return" THEN ConnectorsExcept(connectors)
    ELSE Return(FormatConnectors(FilterConnectors(connectors.value)))

\* Faulty variant: the paragraph is emitted whenever the key is present, even
\* with an empty path.
OpenedFileParagraph_when_present(config) ==
    LET md == ConfigMetadata(config)
    IN  IF ConfigTruthy(config) /\ Len(md.opened_file_path) > 0
        THEN "\n\n## Current Context\n\nThe user currently has the following file open in their editor:\n**"
             \o md.opened_file_path[1]
             \o "**\n\nWhen the user asks questions or requests changes without specifying a file, they are likely referring to this currently opened file. Use this context to provide more relevant and targeted assistance."
        ELSE ""

\* Lines 227-240: the opened-file paragraph.
OpenedFileParagraph(config) ==
    LET opened_file_path == MetaGet(ConfigMetadata(config), "opened_file_path", None)
    IN  IF ConfigTruthy(config) /\ Truthy(opened_file_path)
        THEN "\n\n## Current Context\n\nThe user currently has the following file open in their editor:\n**"
             \o opened_file_path
             \o "**\n\nWhen the user asks questions or requests changes without specifying a file, they are likely referring to this currently opened file. Use this context to provide more relevant and targeted assistance."
        ELSE ""

\* Lines 242-253: the workspace paragraph.
WorkspaceParagraph(config) ==
    LET workspace_path == MetaGet(ConfigMetadata(config), "workspace_path", None)
    IN  IF ConfigTruthy(config) /\ Truthy(workspace_path)
        THEN "\n\n<workspace_context>\n  <path>"
             \o workspace_path
             \o "</path>\n  <description>All file operations, code modifications, and project-related tasks should be performed within this workspace context. When the user references files or directories without absolute paths, they are relative to this workspace.</description>\n</workspace_context>"
        ELSE ""

\* Lines 214-217: skills_section, or the exception that left the helper.
SkillsSection(config, discover) ==
    IF ConfigTruthy(config) THEN get_skills_prompt_async(config, discover) ELSE Return("")

\* Lines 219-222: connectors_section, or the exception that left the helper.
ConnectorsSection(config, connectors) ==
    IF ConfigTruthy(config) THEN get_connectors_prompt_async(config, connectors)
    ELSE Return("")

\* Faulty variant: the workspace paragraph is added before the opened-file one.
ComposeSections_workspace_first(base_prompt, skills_section, connectors_section, opened, workspace) ==
    base_prompt \o skills_section \o connectors_section \o workspace \o opened

\* Lines 225-255: the sections put together.
ComposeSections(base_prompt, skills_section, connectors_section, opened, workspace) ==
    base_prompt \o skills_section \o connectors_section \o opened \o workspace

\* get_system_prompt_async(config, role): the prompt returned with the remote
\* lookups that were called, or the exception that left a helper.
get_system_prompt_async(config, discover, connectors) ==
    LET skills_section == SkillsSection(config, discover)
        connectors_section == ConnectorsSection(config, connectors)
    IN  IF skills_section.kind # "return" THEN skills_section
        ELSE IF connectors_section.kind # "return" THEN connectors_section
        ELSE [kind |-> "str",
              value |-> ComposeSections(GENERAL_AGENT_SYSTEM_PROMPT,
                                        skills_section.value, connectors_section.value,
                                        OpenedFileParagraph(config),
                                        WorkspaceParagraph(config)),
              called |-> (IF ConfigTruthy(config) /\ SkillsDiscoverCalled(config, discover)
                          THEN {"skills_discover"} ELSE {})
                         \cup (IF ConfigTruthy(config) /\ connectors.kind # "ImportError"
                               THEN {"list_connectors"} ELSE {})]

\* How the two remote lookups behave is part of the environment of a run.
InitPrompt ==
    /\ \E discover \in SkillsDiscoverOutcomes, connectors \in ListConnectorsOutcomes :
          env = [skills_discover |-> discover, list_connectors |-> connectors]
    /\ _llm = NoneObj
    /\ _agent = NoneObj
    /\ pc = "idle"
    /\ op = "none"
    /\ request = NoRequest
    /\ result = Raise("none")

\* A caller awaits get_system_prompt_async(config).
CallGetSystemPrompt ==
    /\ pc = "idle"
    /\ \E config \in Configs :
          /\ request' = [config |-> config]
          /\ result' = get_system_prompt_async(config, env.skills_discover,
                                               env.list_connectors)
    /\ op' = "prompt"
    /\ pc' = "returned"
    /\ UNCHANGED <<env, _llm, _agent>>

NextPrompt == CallGetSystemPrompt \/ Finish

SpecPrompt == InitPrompt /\ [][NextPrompt]_vars

(***************************************************************************)
(* Properties of the prompt composer                                       *)
(***************************************************************************)

PromptReturned == pc = "returned" /\ op = "prompt"

\* s contains sub as a substring.
Contains(s, sub) ==
    \E i \in 1..(Len(s) - Len(sub) + 1) : SubSeq(s, i, i + Len(sub) - 1) = sub

StartsWith(s, prefix) ==
    Len(s) >= Len(prefix) /\ SubSeq(s, 1, Len(prefix)) = prefix

\* The sections of the finished call's request, as the helpers return them.
ReqSkills == SkillsSection(request.config, env.skills_discover).value

ReqConnectors == ConnectorsSection(request.config, env.list_connectors).value

ReqOpened == OpenedFileParagraph(request.config)

ReqWorkspace == WorkspaceParagraph(request.config)

\* The part of the returned prompt between the skills section and the
\* opened-file paragraph.
ConnectorsPartOfPrompt ==
    SubSeq(result.value,
           Len(GENERAL_AGENT_SYSTEM_PROMPT) + Len(ReqSkills) + 1,
           Len(result.value) - Len(ReqOpened) - Len(ReqWorkspace))

\* The part of the returned prompt between the base prompt and the
\* connectors section.
SkillsPartOfPrompt ==
    SubSeq(result.value,
           Len(GENERAL_AGENT_SYSTEM_PROMPT) + 1,
           Len(result.value) - Len(ReqConnectors) - Len(ReqOpened) - Len(ReqWorkspace))

\* C11: the returned prompt is the base prompt, the skills section, the
\* connectors section, the opened-file paragraph and the workspace paragraph
\* concatenated in that order, an unavailable section being the empty string.
C11_FixedSectionOrder ==
    PromptReturned
    => /\ result.kind = "str"
       /\ result.value =
            GENERAL_AGENT_SYSTEM_PROMPT \o ReqSkills \o ReqConnectors
                \o ReqOpened \o ReqWorkspace

\* C11 witness: all four optional sections are present in one prompt.
C11_Witness ==
    /\ PromptReturned
    /\ result.kind = "str"
    /\ ReqSkills # ""
    /\ ReqConnectors # ""
    /\ ReqOpened # ""
    /\ ReqWorkspace # ""

IsFailure(outcome) == outcome.kind \in {"ImportError", "Exception"}

\* C12: when the skills lookup or the connectors lookup fails (import missing
\* or exception), a prompt is still returned, it starts with the base prompt,
\* and it is the prompt the same request gets when that lookup succeeds and
\* finds nothing: the failed section is empty and the others are unaffected.
C12_LookupFailureDegrades ==
    PromptReturned
    => /\ IsFailure(env.skills_discover) =>
            /\ result.kind = "str"
            /\ StartsWith(result.value, GENERAL_AGENT_SYSTEM_PROMPT)
            /\ result.value =
                 get_system_prompt_async(request.config, Return(<<>>),
                                         env.list_connectors).value
            /\ (ConfigTruthy(request.config) /\ ~UsesAssigned(request.config)) =>
                 SkillsPartOfPrompt = ""
       /\ IsFailure(env.list_connectors) =>
            /\ result.kind = "str"
            /\ StartsWith(result.value, GENERAL_AGENT_SYSTEM_PROMPT)
            /\ result.value =
                 get_system_prompt_async(request.config, env.skills_discover,
                                         Return(<<>>)).value
            /\ ConnectorsPartOfPrompt = ""

\* C12 witness: assigned_skills is [], discovery raised, the connectors
\* lookup returned a Gmail mount, and the prompt has the connectors section
\* right after the base prompt.
C12_Witness ==
    /\ PromptReturned
    /\ ConfigTruthy(request.config)
    /\ ConfigMetadata(request.config).assigned_skills = <<(<<>>)>>
    /\ env.skills_discover = Raise("Exception")
    /\ env.list_connectors.kind = "return"
    /\ result.kind = "str"
    /\ SkillsPartOfPrompt = ""
    /\ StartsWith(ConnectorsPartOfPrompt, "\n\n<connectors count=\"1\">\n")

\* The connectors section whose count attribute is n (no section for 0).
HasConnectorCount(section, n) ==
    IF n = 0 THEN section = ""
    ELSE StartsWith(section, "\n\n<connectors count=\"" \o ToString(n) \o "\">\n")

RecognizedKinds ==
    {"GmailConnectorBackend", "SlackConnectorBackend",
     "GDriveConnectorBackend", "XConnectorBackend"}

Recognized(mount) ==
    Len(mount.backend_type) > 0 /\ mount.backend_type[1] \in RecognizedKinds

\* C13 as stated: every mount the lookup returned appears in the connectors
\* section (unrecognized kinds with the fallback label), so the section's
\* count is the number of results returned.
C13_EveryMountListed ==
    (PromptReturned /\ ConfigTruthy(request.config)
        /\ env.list_connectors.kind = "return")
    => /\ HasConnectorCount(ConnectorsPartOfPrompt, Len(env.list_connectors.value))
       /\ ConnectorsPartOfPrompt = FormatConnectors(env.list_connectors.value)

\* C13 amended: only the mounts whose backend kind is one of the four
\* recognized kinds appear in the connectors section, in lookup order; the
\* others are dropped, so the section's count is the number of recognized
\* mounts (no section when there is none).
C13_OnlyRecognizedMountsListed ==
    (PromptReturned /\ ConfigTruthy(request.config)
        /\ env.list_connectors.kind = "return")
    => LET kept == SelectSeq(env.list_connectors.value, Recognized)
       IN  /\ HasConnectorCount(ConnectorsPartOfPrompt, Len(kept))
           /\ ConnectorsPartOfPrompt = FormatConnectors(kept)

\* C13 witness: the lookup returned a Notion mount and a Slack mount and the
\* section lists one connector.
C13_Witness ==
    /\ PromptReturned
    /\ ConfigTruthy(request.config)
    /\ env.list_connectors.kind = "return"
    /\ Len(env.list_connectors.value) = 2
    /\ env.list_connectors.value[1].backend_type = <<"NotionConnectorBackend">>
    /\ env.list_connectors.value[2].backend_type = <<"SlackConnectorBackend">>
    /\ HasConnectorCount(ConnectorsPartOfPrompt, 1)
    /\ Contains(ConnectorsPartOfPrompt, "<name>Slack</name>")

\* The <skill> elements of the assigned skills, written out from the
\* descriptors: name, description and path, in the given order.
RECURSIVE AssignedEntries(_)
AssignedEntries(assigned) ==
    IF assigned = <<>> THEN ""
    ELSE LET a == Head(assigned)
         IN  "  <skill>\n"
             \o "    <name>" \o (IF a.name = <<>> THEN "Unknown" ELSE a.name[1])
             \o "</name>\n"
             \o "    <description>"
             \o (IF a.description = <<>> THEN "No description" ELSE a.description[1])
             \o "</description>\n"
             \o (IF a.path = <<>> \/ a.path = <<"">> THEN ""
                 ELSE "    <file_path>" \o a.path[1] \o "</file_path>\n")
             \o "  </skill>\n"
             \o AssignedEntries(Tail(assigned))

ReqAssigned ==
    LET md == ConfigMetadata(request.config)
    IN  IF md.assigned_skills = <<>> THEN <<>> ELSE md.assigned_skills[1]

\* C14: with a non-empty assigned_skills list the skills section has one
\* entry per assigned skill, in the given order, and skills_discover is not
\* called; skills_discover is called only when assigned_skills is absent or
\* empty.
C14_AssignedSkillsBypassDiscovery ==
    (PromptReturned /\ ConfigTruthy(request.config))
    => /\ result.kind = "str"
       /\ ReqAssigned # <<>> =>
            /\ "skills_discover" \notin result.called
            /\ SkillsPartOfPrompt =
                 "\n\n<skills count=\"" \o ToString(Len(ReqAssigned)) \o "\">\n"
                     \o AssignedEntries(ReqAssigned) \o "</skills>\n"
       /\ "skills_discover" \in result.called => ReqAssigned = <<>>

\* C14 witness: two skills are assigned, discovery would have returned a
\* skill, and the section lists the two assigned ones.
C14_Witness ==
    /\ PromptReturned
    /\ ConfigTruthy(request.config)
    /\ Len(ReqAssigned) = 2
    /\ ReqAssigned[1] # ReqAssigned[2]
    /\ env.skills_discover.kind = "return"
    /\ env.skills_discover.value # <<>>
    /\ env.skills_discover.value[1] # <<>>
    /\ result.called = {"list_connectors"}
    /\ StartsWith(SkillsPartOfPrompt, "\n\n<skills count=\"2\">\n")

HasPath(key) ==
    /\ request.config.kind = "dict"
    /\ request.config.metadata # <<>>
    /\ request.config.metadata[1][key] \notin {<<>>, <<"">>}

\* s contains sub at a position from `from` on.
ContainsFrom(s, sub, from) ==
    \E i \in from..(Len(s) - Len(sub) + 1) : SubSeq(s, i, i + Len(sub) - 1) = sub

BaseHasOpenedHeading == Contains(GENERAL_AGENT_SYSTEM_PROMPT, "## Current Context")

BaseHasWorkspaceBlock == Contains(GENERAL_AGENT_SYSTEM_PROMPT, "<workspace_context>")

\* The returned prompt contains sub (one of the two markers): the prompt
\* starts with the base prompt, which is searched once, and the rest is
\* searched from the first position where sub would reach past the base.
PromptContains(sub) ==
    IF StartsWith(result.value, GENERAL_AGENT_SYSTEM_PROMPT)
    THEN (IF sub = "## Current Context" THEN BaseHasOpenedHeading
          ELSE BaseHasWorkspaceBlock)
         \/ ContainsFrom(result.value, sub,
                         Max(1, Len(GENERAL_AGENT_SYSTEM_PROMPT) - Len(sub) + 2))
    ELSE Contains(result.value, sub)

\* C15: the prompt contains the opened-file paragraph (the "## Current
\* Context" heading) exactly when metadata has a non-empty opened_file_path,
\* and the <workspace_context> block exactly when metadata has a non-empty
\* workspace_path, whatever the other path and the other sections are.
C15_ContextParagraphs ==
    PromptReturned
    => /\ result.kind = "str"
       /\ PromptContains("## Current Context") <=> HasPath("opened_file_path")
       /\ PromptContains("<workspace_context>") <=> HasPath("workspace_path")

\* C15 witness: a prompt with skills and connectors sections and the
\* workspace block but, opened_file_path being empty, no opened-file heading.
C15_Witness ==
    /\ PromptReturned
    /\ result.kind = "str"
    /\ request.config.metadata # <<>>
    /\ request.config.metadata[1].opened_file_path = <<"">>
    /\ HasPath("workspace_path")
    /\ ReqSkills # ""
    /\ ReqConnectors # ""
    /\ PromptContains("<workspace_context>")
    /\ ~PromptContains("## Current Context")

(***************************************************************************)
(* agents/dental/tools.py                                                  *)
(*                                                                         *)
(* The environment of a run holds TAVILY_API_KEY, what constructing        *)
(* TavilyClient does (returns or raises) and what client.search does       *)
(* (raises, or returns a response dict with or without "results").         *)
(***************************************************************************)

\* Longest list of results the search provider returns.
MaxResults == 2

CITATION_YEAR == 2024

Lowercase == "abcdefghijklmnopqrstuvwxyz"

Uppercase == "ABCDEFGHIJKLMNOPQRSTUVWXYZ"

CharAt(s, i) == SubSeq(s, i, i)

IsLower(c) == \E i \in 1..Len(Lowercase) : CharAt(Lowercase, i) = c

IsUpper(c) == \E i \in 1..Len(Uppercase) : CharAt(Uppercase, i) = c

\* c.upper() and c.lower() of one character.
ToUpper(c) ==
    IF IsLower(c)
    THEN CharAt(Uppercase, CHOOSE i \in 1..Len(Lowercase) : CharAt(Lowercase, i) = c)
    ELSE c

ToLower(c) ==
    IF IsUpper(c)
    THEN CharAt(Lowercase, CHOOSE i \in 1..Len(Uppercase) : CharAt(Uppercase, i) = c)
    ELSE c

\* str.title(): a letter after a non-letter is upper-cased, a letter after a
\* letter is lower-cased, other characters are kept.
RECURSIVE TitleFrom(_, _, _)
TitleFrom(s, i, after_letter) ==
    IF i > Len(s) THEN ""
    ELSE LET c == CharAt(s, i)
             cased == IsLower(c) \/ IsUpper(c)
         IN  (IF ~cased THEN c ELSE IF after_letter THEN ToLower(c) ELSE ToUpper(c))
             \o TitleFrom(s, i + 1, cased)

Title(s) == TitleFrom(s, 1, FALSE)

\* s.replace(old, ""): every occurrence of old, left to right, is removed.
RECURSIVE Remove(_, _)
Remove(s, old) ==
    IF Len(s) < Len(old) THEN s
    ELSE IF SubSeq(s, 1, Len(old)) = old
         THEN Remove(SubSeq(s, Len(old) + 1, Len(s)), old)
         ELSE CharAt(s, 1) \o Remove(SubSeq(s, 2, Len(s)), old)

\* The positions of "/" in url.
Slashes(url) == {i \in 1..Len(url) : CharAt(url, i) = "/"}

\* The k-th smallest element of a set of positions.
Nth(S, k) == CHOOSE x \in S : Cardinality({y \in S : y < x}) = k - 1

\* Line 38: url.split("/")[2] if url and "/" in url else "Web Source"
DomainOf(url) ==
    IF ~(Truthy(url) /\ Slashes(url) # {}) THEN Return("Web Source")
    ELSE IF Cardinality(Slashes(url)) < 2 THEN Raise("IndexError")
    ELSE LET from == Nth(Slashes(url), 2) + 1
             to == IF Cardinality(Slashes(url)) >= 3
                   THEN Nth(Slashes(url), 3) - 1 ELSE Len(url)
         IN  Return(SubSeq(url, from, to))

\* Lines 41-42: the four replace calls and title().
Publication(domain) ==
    Title(Remove(Remove(Remove(Remove(domain, "www."), ".com"), ".org"), ".gov"))

\* Lines 36-51: the citation of the i-th result, or the exception raised.
Citation(i, res) ==
    LET url == MetaGet(res, "url", "")
        domain == DomainOf(url)
    IN  IF domain.kind # "return" THEN domain
        ELSE Return([id |-> "cite-" \o ToString(i),
                     marker |-> "[" \o ToString(i) \o "]",
                     title |-> MetaGet(res, "title", "Untitled"),
                     publication |-> Publication(domain.value),
                     year |-> CITATION_YEAR,
                     url |-> url])

\* Lines 34-53: the loop over the results; the first exception ends it.
RECURSIVE Citations(_, _)
Citations(results, i) ==
    IF i > Len(results) THEN Return(<<>>)
    ELSE LET c == Citation(i, results[i])
         IN  IF c.kind # "return" THEN c
             ELSE LET rest == Citations(results, i + 1)
                  IN  IF rest.kind # "return" THEN rest
                      ELSE Return(<<c.value>> \o rest.value)

\* Lines 55-57: `except Exception` around the search and the loop.
SearchExcept(exc) == Return(<<>>)

\* Line 21: TavilyClient(api_key=api_key), before the try block.
ClientConstruction(outcome) == outcome

\* _search_tavily(query)
_search_tavily(query) ==
    IF ~Truthy(getenv("TAVILY_API_KEY")) THEN Return(<<>>)
    ELSE LET client == ClientConstruction(env.TavilyClient)
         IN  IF client.kind # "return" THEN client
             ELSE IF env.search.kind # "return" THEN SearchExcept(env.search)
             ELSE LET citations ==
                          Citations(MetaGet(env.search.value, "results", <<>>), 1)
                  IN  IF citations.kind # "return" THEN SearchExcept(citations)
                      ELSE citations

\* search_dental_literature(query): the list returned, or the exception raised.
search_dental_literature(query) ==
    LET citations_data == _search_tavily(query)
    IN  IF citations_data.kind = "return"
        THEN [kind |-> "list", value |-> citations_data.value]
        ELSE citations_data

\* Results of the search provider: {title, url}.
ResultPool ==
    {[title |-> <<"Fluoride guidance">>, url |-> <<"https://www.ada.org/path">>],
     [title |-> <<>>, url |-> <<"https://pubmed.ncbi.nlm.nih.gov/123/">>],
     [title |-> <<"Practice news">>, url |-> <<"https://news.company.org/a">>],
     [title |-> <<"Relative link">>, url |-> <<"ada.org/path">>],
     [title |-> <<"No link">>, url |-> <<>>],
     [title |-> <<"Bare host">>, url |-> <<"cdc.gov">>]}

SearchOutcomes ==
    {Raise("Exception"), Return([results |-> <<>>])}
        \cup {Return([results |-> <<l>>]) : l \in SeqUpTo(ResultPool, MaxResults)}

Queries == {"amoxicillin dosage", ""}

InitCite ==
    /\ \E key \in EnvValues, search \in SearchOutcomes,
          client \in {Return("TavilyClient"), Raise("Exception")} :
          env = [TAVILY_API_KEY |-> key, TavilyClient |-> client, search |-> search]
    /\ _llm = NoneObj
    /\ _agent = NoneObj
    /\ pc = "idle"
    /\ op = "none"
    /\ request = NoRequest
    /\ result = Raise("none")

\* The agent calls the tool search_dental_literature(query).
CallSearchDentalLiterature ==
    /\ pc = "idle"
    /\ \E query \in Queries :
          /\ request' = [query |-> query]
          /\ result' = search_dental_literature(query)
    /\ op' = "search"
    /\ pc' = "returned"
    /\ UNCHANGED <<env, _llm, _agent>>

NextCite == CallSearchDentalLiterature \/ Finish

SpecCite == InitCite /\ [][NextCite]_vars

(***************************************************************************)
(* Properties of the dental citation tool                                  *)
(***************************************************************************)

SearchReturned == pc = "returned" /\ op = "search"

\* The search provider answered: the key is set, the client was built and
\* client.search returned a response.
ProviderReturnedResults ==
    /\ Truthy(env.TAVILY_API_KEY)
    /\ env.TavilyClient.kind = "return"
    /\ env.search.kind = "return"

ProviderResults == MetaGet(env.search.value, "results", <<>>)

\* C16: when the search provider returns n results, the tool returns n
\* citations in the provider's order, the i-th with marker "[i]" (from 1)
\* and year 2024.
C16_OneCitationPerResult ==
    (SearchReturned /\ ProviderReturnedResults) =>
        /\ result.kind = "list"
        /\ Len(result.value) = Len(ProviderResults)
        /\ \A i \in 1..Len(ProviderResults) :
              /\ result.value[i].marker = "[" \o ToString(i) \o "]"
              /\ result.value[i].year = 2024
              /\ result.value[i].url = MetaGet(ProviderResults[i], "url", "")
              /\ result.value[i].title = MetaGet(ProviderResults[i], "title", "Untitled")

\* The key is absent, or the provider or the processing of its results raises.
SearchFails ==
    \/ ~Truthy(env.TAVILY_API_KEY)
    \/ env.TavilyClient.kind # "return"
    \/ env.search.kind # "return"
    \/ \E i \in 1..Len(ProviderResults) :
          DomainOf(MetaGet(ProviderResults[i], "url", "")).kind # "return"

\* C17: search_dental_literature never raises to its caller; when the key is
\* absent, or client construction, the search call or the result processing
\* raises, it returns the empty citation list.
C17_NeverRaises ==
    SearchReturned =>
        /\ result.kind = "list"
        /\ SearchFails => result.value = <<>>

\* s without prefix when s starts with it.
StripLeading(s, prefix) ==
    IF Len(s) >= Len(prefix) /\ SubSeq(s, 1, Len(prefix)) = prefix
    THEN SubSeq(s, Len(prefix) + 1, Len(s))
    ELSE s

\* s without suffix when s ends with it.
StripTrailing(s, suffix) ==
    IF Len(s) >= Len(suffix) /\ SubSeq(s, Len(s) - Len(suffix) + 1, Len(s)) = suffix
    THEN SubSeq(s, 1, Len(s) - Len(suffix))
    ELSE s

\* The host with a leading "www." and a trailing .com, .org or .gov removed,
\* then title-cased.
HostLabel(host) ==
    Title(StripTrailing(StripTrailing(StripTrailing(StripLeading(host, "www."),
                                                    ".com"), ".org"), ".gov"))

\* The result's URL has a host part (scheme://host/...).
HasHost(url) == Cardinality(Slashes(url)) >= 2

\* C18: the publication label of a citation is the host of the result URL
\* with only a leading "www." and a trailing .com/.org/.gov removed, then
\* title-cased; characters elsewhere in the host are left as they are.
C18_LabelStripsOnlyEnds ==
    (SearchReturned /\ result.kind = "list") =>
        \A i \in 1..Len(result.value) :
            HasHost(result.value[i].url) =>
                result.value[i].publication = HostLabel(DomainOf(result.value[i].url).value)

(***************************************************************************)
(* agents/react/agent.py: concurrent calls of get_llm_instance             *)
(*                                                                         *)
(* Each thread runs get_llm_instance() statement by statement; a thread    *)
(* switch can fall between the test of _llm, the call of get_llm(), the    *)
(* store to the global and the load for the return.  pc, request and       *)
(* result are per thread: request[t].seen is the value of _llm the call    *)
(* of thread t found at its test, result[t] is the value the thread holds  *)
(* (the handle it built, then the value it returns).                       *)
(***************************************************************************)

NumThreads == 2

Threads == 1..NumThreads

\* Faulty variant: the test is dropped, every call constructs.
IsUnset_always(value) == TRUE

\* Line 59: `_llm is None`
IsUnset(value) == IsNone(value)

\* Line 60: get_llm(), a new object on every successful call; `by` is the
\* thread that built it.
ConstructLlm(by) ==
    LET llm == get_llm(None, None, None, FALSE, DEFAULT_THINKING_BUDGET)
    IN  IF IsException(llm) THEN llm
        ELSE [kind |-> "handle", model |-> llm, by |-> by]

InitConc ==
    /\ env \in [EnvKeys -> EnvValues]
    /\ _llm = NoneObj
    /\ _agent = NoneObj
    /\ pc = [t \in Threads |-> "idle"]
    /\ op = "get_llm_instance"
    /\ request = [t \in Threads |-> NoRequest]
    /\ result = [t \in Threads |-> Raise("none")]

\* Line 59: thread t enters get_llm_instance and tests `_llm is None`.
TestLlm(t) ==
    /\ pc[t] = "idle"
    /\ request' = [request EXCEPT ![t] = [seen |-> _llm]]
    /\ pc' = [pc EXCEPT ![t] = IF IsUnset(_llm) THEN "construct" ELSE "load"]
    /\ UNCHANGED <<env, _llm, _agent, op, result>>

\* Line 60, right-hand side: get_llm() returns a handle or raises; the
\* exception leaves the call.
CallGetLlmDefault(t) ==
    /\ pc[t] = "construct"
    /\ result' = [result EXCEPT ![t] = ConstructLlm(t)]
    /\ pc' = [pc EXCEPT ![t] = IF IsException(ConstructLlm(t)) THEN "returned" ELSE "store"]
    /\ UNCHANGED <<env, _llm, _agent, op, request>>

\* Line 60, assignment: the global is bound to the handle just built.
StoreLlm(t) ==
    /\ pc[t] = "store"
    /\ _llm' = result[t]
    /\ pc' = [pc EXCEPT ![t] = "load"]
    /\ UNCHANGED <<env, _agent, op, request, result>>

\* Line 61: `return _llm` reads the global again.
ReturnLlm(t) ==
    /\ pc[t] = "load"
    /\ result' = [result EXCEPT ![t] = _llm]
    /\ pc' = [pc EXCEPT ![t] = "returned"]
    /\ UNCHANGED <<env, _llm, _agent, op, request>>

\* The caller of thread t has taken the value; the thread can call again.
FinishCall(t) ==
    /\ pc[t] = "returned"
    /\ pc' = [pc EXCEPT ![t] = "idle"]
    /\ request' = [request EXCEPT ![t] = NoRequest]
    /\ result' = [result EXCEPT ![t] = Raise("none")]
    /\ UNCHANGED <<env, _llm, _agent, op>>

NextConc ==
    \E t \in Threads :
        TestLlm(t) \/ CallGetLlmDefault(t) \/ StoreLlm(t) \/ ReturnLlm(t) \/ FinishCall(t)

SpecConc == InitConc /\ [][NextConc]_vars

(***************************************************************************)
(* Properties of the memoized handle                                       *)
(***************************************************************************)

IsHandle(v) == v.kind = "handle"

\* Thread t has returned from a call with a value (not an exception).
ReturnedValue(t) == pc[t] = "returned" /\ ~IsException(result[t])

\* C19 as stated: every call returns a constructed handle, and once a handle
\* has been stored in _llm it is never replaced by another; a construction
\* that fails leaves _llm unset.
C19_NeverReplaced ==
    [][/\ ~IsNone(_llm) => _llm' = _llm
       /\ \A t \in Threads :
             /\ (pc'[t] = "returned" /\ ~IsException(result'[t])) => IsHandle(result'[t])
             /\ (pc[t] = "construct" /\ pc'[t] = "returned") => _llm' = _llm]_vars

\* What holds in every state: a call that returns a value returns a handle
\* built from the default configuration; a call that found _llm set builds
\* nothing and returns the handle it found or one a racing thread stored
\* since.
C19_State ==
    /\ IsNone(_llm) \/ IsHandle(_llm)
    /\ \A t \in Threads :
          /\ ReturnedValue(t) =>
                /\ IsHandle(result[t])
                /\ result[t].model = get_llm(None, None, None, FALSE, 2048)
                /\ result[t] = _llm \/ \E u \in Threads \ {t} : _llm.by = u
          /\ (pc[t] \in {"construct", "store"}) => IsNone(request[t].seen)
          /\ (pc[t] \in {"load", "returned"} /\ ~IsNone(request[t].seen)) =>
                /\ ~IsNone(_llm)
                /\ ReturnedValue(t) =>
                      result[t] = request[t].seen \/ result[t].by # t

\* What holds of every step: once set, _llm is never unset; it changes only
\* by the store of a call that found it unset, to the handle that call
\* built; a failed construction leaves it unchanged.
C19_Step ==
    /\ ~IsNone(_llm) => ~IsNone(_llm')
    /\ _llm' # _llm =>
          \E t \in Threads :
              /\ pc[t] = "store"
              /\ IsNone(request[t].seen)
              /\ _llm' = result[t]
              /\ _llm'.by = t
    /\ \A t \in Threads :
          (pc[t] = "construct" /\ pc'[t] = "returned") =>
              /\ IsException(result'[t])
              /\ _llm' = _llm

\* C19, amended: every call that returns a value returns a constructed
\* handle of the default configuration; a stored handle is never unset and
\* is replaced only by the handle of a racing call that found _llm unset; a
\* call that finds _llm set constructs nothing; a failed construction leaves
\* _llm unchanged.
C19_SharedHandleUnderRace == []C19_State /\ [][C19_Step]_vars

\* Two calls raced: a stored handle was replaced, and a call has returned a
\* handle that is no longer the stored one.
C19_Witness ==
    \E t \in Threads :
        /\ ReturnedValue(t)
        /\ IsHandle(result[t])
        /\ result[t] # _llm

====
